---------------------------- MODULE Spec2Model ----------------------------
(***************************************************************************)
(* Model of rust_src/lib.rs: the pyo3 classes that wrap the watermill      *)
(* streaming estimators (RsQuantile, RsEWMean, RsEWVar, RsIQR, RsKurtosis, *)
(* RsPeakToPeak, RsSkew, RsRollingQuantile, RsRollingIQR), their pickle     *)
(* protocol (__getstate__ / __setstate__ / __getnewargs__ over bincode),   *)
(* and the batch distance routine RsGet1ToNDistances.                      *)
(*                                                                         *)
(* Numbers.  An f64 is modelled as a fixed-point integer counting units of *)
(* 1/One, so One stands for 1.0; products are rescaled by One and rounded  *)
(* toward minus infinity.  The distance routine is modelled on             *)
(* integer-valued f64s, on which its arithmetic is exact.                  *)
(*                                                                         *)
(* Errors.  lib.rs has no error types: a failing call panics (unwrap,      *)
(* expect, integer division by zero), which pyo3 raises to the caller as   *)
(* an exception.  The outcome of a call is therefore "Ok" or "Panic".      *)
(*                                                                         *)
(* The estimators themselves (the watermill crate) are not part of lib.rs; *)
(* their state and recurrences follow the design document of the library.  *)
(***************************************************************************)
EXTENDS Integers, Sequences, FiniteSets, TLC

(* ------------------------------ bounds -------------------------------- *)

\* Fixed-point resolution: the integer that stands for 1.0.
One == 4
\* Updates fed to an estimator whose state is not bounded by a window.
MaxUpdates == 3
\* Largest window_size of a rolling estimator in the pickle life cycle.
MaxWin == 2
\* Largest window_size of a rolling estimator in the streaming life cycle.
MaxWindow == 3
\* Longest query and longest flattened reference array of the distance routine.
MaxQueryLen == 2
MaxRefLen == 6

(* --------------------------- fixed point ------------------------------ *)

Half == One \div 2

FixMul(a, b) == (a * b) \div One

FixDiv(a, b) == (a * One) \div b

\* Not-a-number, the f64 a 0/0 yields: a value no finite computation reaches.
NaN == 0 - 1000000

\* Largest r with r*r <= v.
ISqrt(v) == CHOOSE r \in 0..v : r * r <= v /\ (r + 1) * (r + 1) > v

\* Square root of a fixed-point number.
FixSqrt(v) == ISqrt(v * One)

(* ------------------------- sequence helpers --------------------------- *)

RECURSIVE InsertSorted(_, _)
\* s with x inserted before the first element greater than it.
InsertSorted(s, x) ==
    IF s = <<>> THEN <<x>>
    ELSE IF x < Head(s) THEN <<x>> \o s
    ELSE <<Head(s)>> \o InsertSorted(Tail(s), x)

RECURSIVE RemoveOne(_, _)
\* s without the first occurrence of x.
RemoveOne(s, x) ==
    IF s = <<>> THEN <<>>
    ELSE IF Head(s) = x THEN Tail(s)
    ELSE <<Head(s)>> \o RemoveOne(Tail(s), x)

RECURSIVE SortAsc(_)
\* s in ascending order.
SortAsc(s) == IF s = <<>> THEN <<>> ELSE InsertSorted(SortAsc(Tail(s)), Head(s))

\* The last n elements of s (all of s when it is shorter).
LastN(s, n) == IF Len(s) <= n THEN s ELSE SubSeq(s, Len(s) - n + 1, Len(s))

Min2(a, b) == IF a <= b THEN a ELSE b

Max2(a, b) == IF a >= b THEN a ELSE b

(* ------------------- watermill: the wrapped estimators ---------------- *)

\* Quantile levels lie in [0, 1].
ValidQ(q) == 0 <= q /\ q <= One

\* Rank with a tie going to the higher index.
Rank_half_up(q, len) == (2 * q * (len - 1) + One) \div (2 * One)

\* Nearest rank round(q * (len - 1)), a tie going to the lower index (0-based).
Rank(q, len) == 0 - ((One - 2 * q * (len - 1)) \div (2 * One))

\* The P-square estimator keeps five markers.
Markers == 5

\* Quantile::new(q): Err unless q is in [0, 1]; the markers start empty.
Quantile_new(q) ==
    IF ValidQ(q) THEN [ok |-> TRUE, val |-> [q |-> q, heights |-> <<>>]]
    ELSE [ok |-> FALSE]

\* Quantile::default(): the median.
Quantile_default == [q |-> Half, heights |-> <<>>]

\* Quantile::update while the markers fill (the first Markers observations).
Quantile_update(s, x) == [s EXCEPT !.heights = Append(@, x)]

\* Quantile::get before the markers are full: the order statistic of what was seen.
Quantile_get(s) ==
    IF s.heights = <<>> THEN 0
    ELSE SortAsc(s.heights)[Rank(s.q, Len(s.heights)) + 1]

\* EWMean::new(alpha): plain construction.
EWMean_new(alpha) == [mean |-> 0, seen |-> FALSE, alpha |-> alpha]

\* EWMean::update: the first value initialises m, then m <- m + alpha * (x - m).
EWMean_update(s, x) ==
    IF ~s.seen THEN [s EXCEPT !.mean = x, !.seen = TRUE]
    ELSE [s EXCEPT !.mean = s.mean + FixMul(s.alpha, x - s.mean)]

EWMean_get(s) == s.mean

\* EWVariance::new(alpha): plain construction.
EWVariance_new(alpha) == [mean |-> 0, variance |-> 0, alpha |-> alpha]

\* EWVariance::update: diff, incr, m <- m + incr, v <- (1 - alpha) * (v + diff * incr).
EWVariance_update(s, x) ==
    LET diff == x - s.mean
        incr == FixMul(s.alpha, diff)
    IN  [s EXCEPT !.mean = s.mean + incr,
                  !.variance = FixMul(One - s.alpha, s.variance + FixMul(diff, incr))]

EWVariance_get(s) == s.variance

\* PeakToPeak::new(): min and max unset.
PeakToPeak_new == [min |-> 0, max |-> 0, seen |-> FALSE]

PeakToPeak_update(s, x) ==
    IF ~s.seen THEN [min |-> x, max |-> x, seen |-> TRUE]
    ELSE [s EXCEPT !.min = Min2(@, x), !.max = Max2(@, x)]

\* PeakToPeak::get: max - min, 0 before any update.
PeakToPeak_get(s) == IF s.seen THEN s.max - s.min ELSE 0

\* The moment tuple (n, mean, M2, M3, M4) of Kurtosis and Skew, empty.
Moments_new(bias) == [bias |-> bias, n |-> 0, mean |-> 0, M2 |-> 0, M3 |-> 0, M4 |-> 0]

\* The Welford-style update of the central moments.
Moments_update(s, x) ==
    LET n1 == s.n
        n == s.n + 1
        delta == x - s.mean
        delta_n == delta \div n
        delta_n2 == FixMul(delta_n, delta_n)
        term1 == FixMul(delta, delta_n) * n1
    IN  [s EXCEPT !.n = n,
                  !.mean = s.mean + delta_n,
                  !.M4 = s.M4 + FixMul(term1, delta_n2) * (n * n - 3 * n + 3)
                              + 6 * FixMul(delta_n2, s.M2) - 4 * FixMul(delta_n, s.M3),
                  !.M3 = s.M3 + FixMul(term1, delta_n) * (n - 2) - 3 * FixMul(delta_n, s.M2),
                  !.M2 = s.M2 + term1]

Kurtosis_new(bias) == Moments_new(bias)

Kurtosis_update(s, x) == Moments_update(s, x)

\* Kurtosis::get: M4/n / (M2/n)^2 - 3, bias-corrected for n >= 4 when bias is off.
Kurtosis_get(s) ==
    LET v == IF s.n = 0 THEN 0 ELSE s.M2 \div s.n
        d == FixMul(v, v)
        g == IF d <= 0 THEN NaN ELSE FixDiv(s.M4 \div s.n, d) - 3 * One
    IN  IF g = NaN THEN NaN
        ELSE IF s.bias THEN g
        ELSE IF s.n < 4 THEN NaN
        ELSE ((s.n - 1) * ((s.n + 1) * g + 6 * One)) \div ((s.n - 2) * (s.n - 3))

Skew_new(bias) == Moments_new(bias)

Skew_update(s, x) == Moments_update(s, x)

\* Skew::get: M3/n / (M2/n)^1.5, Fisher-corrected for n >= 3 when bias is off.
Skew_get(s) ==
    LET v == IF s.n = 0 THEN 0 ELSE s.M2 \div s.n
        d == IF v <= 0 THEN 0 ELSE FixMul(v, FixSqrt(v))
        g == IF d <= 0 THEN NaN ELSE FixDiv(s.M3 \div s.n, d)
    IN  IF g = NaN THEN NaN
        ELSE IF s.bias THEN g
        ELSE IF s.n < 3 THEN NaN
        ELSE FixMul(g, FixSqrt(s.n * (s.n - 1) * One)) \div (s.n - 2)

\* IQR::new(q_inf, q_sup): Err unless q_inf < q_sup and both lie in [0, 1].
IQR_new(q_inf, q_sup) ==
    IF ValidQ(q_inf) /\ ValidQ(q_sup) /\ q_inf < q_sup
    THEN [ok |-> TRUE, val |-> [q_inf |-> Quantile_new(q_inf).val, q_sup |-> Quantile_new(q_sup).val]]
    ELSE [ok |-> FALSE]

\* IQR::update forwards to both quantile estimators.
IQR_update(s, x) == [q_inf |-> Quantile_update(s.q_inf, x), q_sup |-> Quantile_update(s.q_sup, x)]

IQR_get(s) == Quantile_get(s.q_sup) - Quantile_get(s.q_inf)

\* The window of a rolling estimator: the buffer in arrival order and the
\* ordered index over the same elements.
SortedWindow_new(window_size) ==
    [unsorted_window |-> <<>>, sorted_window |-> <<>>, window_size |-> window_size]

\* push_back that evicts the oldest element from the buffer only.
SortedWindow_push_back_stale_index(w, x) ==
    LET full == Len(w.unsorted_window) = w.window_size
        buf == IF full THEN Tail(w.unsorted_window) ELSE w.unsorted_window
    IN  [w EXCEPT !.unsorted_window = Append(buf, x),
                  !.sorted_window = InsertSorted(@, x)]

\* A full window evicts its oldest element from buffer and index, then x
\* is appended to the buffer and inserted into the index.
SortedWindow_push_back(w, x) ==
    LET full == Len(w.unsorted_window) = w.window_size
        buf == IF full THEN Tail(w.unsorted_window) ELSE w.unsorted_window
        idx == IF full THEN RemoveOne(w.sorted_window, Head(w.unsorted_window))
               ELSE w.sorted_window
    IN  [w EXCEPT !.unsorted_window = Append(buf, x),
                  !.sorted_window = InsertSorted(idx, x)]

\* RollingQuantile::new(q, window_size): Err when window_size = 0 or q is outside [0, 1].
RollingQuantile_new(q, window_size) ==
    IF window_size >= 1 /\ ValidQ(q)
    THEN [ok |-> TRUE, val |-> [sorted_window |-> SortedWindow_new(window_size), q |-> q]]
    ELSE [ok |-> FALSE]

RollingQuantile_update(s, x) ==
    [s EXCEPT !.sorted_window = SortedWindow_push_back(@, x)]

\* RollingQuantile::get: the element of the index at the nearest rank, 0 when empty.
RollingQuantile_get(s) ==
    LET idx == s.sorted_window.sorted_window
    IN  IF idx = <<>> THEN 0 ELSE idx[Rank(s.q, Len(idx)) + 1]

\* RollingIQR::new: Err when window_size = 0 or a level is outside [0, 1].
RollingIQR_new(q_inf, q_sup, window_size) ==
    IF window_size >= 1 /\ ValidQ(q_inf) /\ ValidQ(q_sup)
    THEN [ok |-> TRUE,
          val |-> [sorted_window |-> SortedWindow_new(window_size), q_inf |-> q_inf, q_sup |-> q_sup]]
    ELSE [ok |-> FALSE]

RollingIQR_update(s, x) ==
    [s EXCEPT !.sorted_window = SortedWindow_push_back(@, x)]

\* RollingIQR::get: one window, two rank queries, their difference.
RollingIQR_get(s) ==
    LET idx == s.sorted_window.sorted_window
    IN  IF idx = <<>> THEN 0
        ELSE idx[Rank(s.q_sup, Len(idx)) + 1] - idx[Rank(s.q_inf, Len(idx)) + 1]

(* --------------------- lib.rs: the pyo3 wrappers ---------------------- *)

Kinds == {"RsQuantile", "RsEWMean", "RsEWVar", "RsIQR", "RsKurtosis",
          "RsPeakToPeak", "RsSkew", "RsRollingQuantile", "RsRollingIQR"}

RollingKinds == {"RsRollingQuantile", "RsRollingIQR"}

\* Kinds whose estimator fills the five P-square markers.
MarkerKinds == {"RsQuantile", "RsIQR"}

\* No instance: before construction, or after a constructor that panicked.
NoEst == [kind |-> "None"]

\* The result of a call that panicked.
Panicked == [ok |-> FALSE]

Returned(v) == [ok |-> TRUE, val |-> v]

\* Result::unwrap / Result::expect: the value, or a panic on Err.
Unwrap(r) == IF r.ok THEN Returned(r.val) ELSE Panicked

\* RsQuantile::new that falls back to the default estimator on Err.
RsQuantile_new_or_default(args) ==
    IF args = <<>> \/ ~Quantile_new(args[1]).ok
    THEN Returned([kind |-> "RsQuantile", quantile |-> Quantile_default])
    ELSE Returned([kind |-> "RsQuantile", quantile |-> Quantile_new(args[1]).val])

\* RsQuantile::new(q: Option<f64>): args is <<>> (None) or <<q>>.
RsQuantile_new(args) ==
    IF args = <<>> THEN Returned([kind |-> "RsQuantile", quantile |-> Quantile_default])
    ELSE LET r == Unwrap(Quantile_new(args[1]))
         IN  IF r.ok THEN Returned([kind |-> "RsQuantile", quantile |-> r.val]) ELSE Panicked

\* RsEWMean::new(alpha): no validation, the argument is stored as given.
RsEWMean_new(args) ==
    Returned([kind |-> "RsEWMean", ewmean |-> EWMean_new(args[1]), alpha |-> args[1]])

\* RsEWVar::new(alpha): no validation, the argument is stored as given.
RsEWVar_new(args) ==
    Returned([kind |-> "RsEWVar", ewvar |-> EWVariance_new(args[1]), alpha |-> args[1]])

RsIQR_new(args) ==
    LET r == Unwrap(IQR_new(args[1], args[2]))
    IN  IF r.ok
        THEN Returned([kind |-> "RsIQR", iqr |-> r.val, q_inf |-> args[1], q_sup |-> args[2]])
        ELSE Panicked

RsKurtosis_new(args) ==
    Returned([kind |-> "RsKurtosis", kurtosis |-> Kurtosis_new(args[1]), bias |-> args[1]])

RsPeakToPeak_new(args) == Returned([kind |-> "RsPeakToPeak", ptp |-> PeakToPeak_new])

RsSkew_new(args) ==
    Returned([kind |-> "RsSkew", skew |-> Skew_new(args[1]), bias |-> args[1]])

RsRollingQuantile_new(args) ==
    LET r == Unwrap(RollingQuantile_new(args[1], args[2]))
    IN  IF r.ok
        THEN Returned([kind |-> "RsRollingQuantile", stat |-> r.val,
                       q |-> args[1], window_size |-> args[2]])
        ELSE Panicked

RsRollingIQR_new(args) ==
    LET r == Unwrap(RollingIQR_new(args[1], args[2], args[3]))
    IN  IF r.ok
        THEN Returned([kind |-> "RsRollingIQR", stat |-> r.val,
                       q_inf |-> args[1], q_sup |-> args[2], window_size |-> args[3]])
        ELSE Panicked

\* The #[new] of the class named kind.
RsNew(kind, args) ==
    CASE kind = "RsQuantile" -> RsQuantile_new(args)
      [] kind = "RsEWMean" -> RsEWMean_new(args)
      [] kind = "RsEWVar" -> RsEWVar_new(args)
      [] kind = "RsIQR" -> RsIQR_new(args)
      [] kind = "RsKurtosis" -> RsKurtosis_new(args)
      [] kind = "RsPeakToPeak" -> RsPeakToPeak_new(args)
      [] kind = "RsSkew" -> RsSkew_new(args)
      [] kind = "RsRollingQuantile" -> RsRollingQuantile_new(args)
      [] kind = "RsRollingIQR" -> RsRollingIQR_new(args)

\* update(&mut self, x): forwards to the wrapped estimator.
RsUpdate(e, x) ==
    CASE e.kind = "RsQuantile" -> [e EXCEPT !.quantile = Quantile_update(@, x)]
      [] e.kind = "RsEWMean" -> [e EXCEPT !.ewmean = EWMean_update(@, x)]
      [] e.kind = "RsEWVar" -> [e EXCEPT !.ewvar = EWVariance_update(@, x)]
      [] e.kind = "RsIQR" -> [e EXCEPT !.iqr = IQR_update(@, x)]
      [] e.kind = "RsKurtosis" -> [e EXCEPT !.kurtosis = Kurtosis_update(@, x)]
      [] e.kind = "RsPeakToPeak" -> [e EXCEPT !.ptp = PeakToPeak_update(@, x)]
      [] e.kind = "RsSkew" -> [e EXCEPT !.skew = Skew_update(@, x)]
      [] e.kind = "RsRollingQuantile" -> [e EXCEPT !.stat = RollingQuantile_update(@, x)]
      [] e.kind = "RsRollingIQR" -> [e EXCEPT !.stat = RollingIQR_update(@, x)]

\* The value get(&self) returns.
GetValue(e) ==
    CASE e.kind = "RsQuantile" -> Quantile_get(e.quantile)
      [] e.kind = "RsEWMean" -> EWMean_get(e.ewmean)
      [] e.kind = "RsEWVar" -> EWVariance_get(e.ewvar)
      [] e.kind = "RsIQR" -> IQR_get(e.iqr)
      [] e.kind = "RsKurtosis" -> Kurtosis_get(e.kurtosis)
      [] e.kind = "RsPeakToPeak" -> PeakToPeak_get(e.ptp)
      [] e.kind = "RsSkew" -> Skew_get(e.skew)
      [] e.kind = "RsRollingQuantile" -> RollingQuantile_get(e.stat)
      [] e.kind = "RsRollingIQR" -> RollingIQR_get(e.stat)

\* get that sorts the markers of a Quantile in place before reading them.
RsGet_sorting(e) ==
    [ret |-> GetValue(e),
     self |-> IF e.kind = "RsQuantile"
              THEN [e EXCEPT !.quantile.heights = SortAsc(@)] ELSE e]

\* get(&self): the value returned, and the instance as the call leaves it.
RsGet(e) == [ret |-> GetValue(e), self |-> e]

\* __getnewargs__(&self): the construction parameters kept beside the estimator
\* (RsQuantile and RsPeakToPeak define none: they are rebuilt with no argument).
RsGetNewArgs(e) ==
    CASE e.kind \in {"RsEWMean", "RsEWVar"} -> <<e.alpha>>
      [] e.kind = "RsIQR" -> <<e.q_inf, e.q_sup>>
      [] e.kind \in {"RsKurtosis", "RsSkew"} -> <<e.bias>>
      [] e.kind = "RsRollingQuantile" -> <<e.q, e.window_size>>
      [] e.kind = "RsRollingIQR" -> <<e.q_inf, e.q_sup, e.window_size>>
      [] OTHER -> <<>>

(* ----------------- bincode: the snapshot byte format ------------------ *)

\* A snapshot is a sequence of cells, one per encoded scalar: an f64 or a
\* usize/u64 is a cell of 8 bytes, a bool a cell of 1 byte.  The format
\* carries no type or field tags.

\* The fields of each class in the order serde visits them (the wrapped
\* estimator first, then the parameters kept beside it), each with its type.
Layout(kind) ==
    CASE kind = "RsQuantile" ->
           << <<<<"quantile", "q">>, "f64">>, <<<<"quantile", "heights">>, "vec">> >>
      [] kind = "RsEWMean" ->
           << <<<<"ewmean", "mean">>, "f64">>, <<<<"ewmean", "seen">>, "bool">>,
              <<<<"ewmean", "alpha">>, "f64">>, <<<<"alpha">>, "f64">> >>
      [] kind = "RsEWVar" ->
           << <<<<"ewvar", "mean">>, "f64">>, <<<<"ewvar", "variance">>, "f64">>,
              <<<<"ewvar", "alpha">>, "f64">>, <<<<"alpha">>, "f64">> >>
      [] kind = "RsIQR" ->
           << <<<<"iqr", "q_inf", "q">>, "f64">>, <<<<"iqr", "q_inf", "heights">>, "vec">>,
              <<<<"iqr", "q_sup", "q">>, "f64">>, <<<<"iqr", "q_sup", "heights">>, "vec">>,
              <<<<"q_inf">>, "f64">>, <<<<"q_sup">>, "f64">> >>
      [] kind = "RsKurtosis" ->
           << <<<<"kurtosis", "bias">>, "bool">>, <<<<"kurtosis", "n">>, "f64">>,
              <<<<"kurtosis", "mean">>, "f64">>, <<<<"kurtosis", "M2">>, "f64">>,
              <<<<"kurtosis", "M3">>, "f64">>, <<<<"kurtosis", "M4">>, "f64">>,
              <<<<"bias">>, "bool">> >>
      [] kind = "RsPeakToPeak" ->
           << <<<<"ptp", "min">>, "f64">>, <<<<"ptp", "max">>, "f64">>,
              <<<<"ptp", "seen">>, "bool">> >>
      [] kind = "RsSkew" ->
           << <<<<"skew", "bias">>, "bool">>, <<<<"skew", "n">>, "f64">>,
              <<<<"skew", "mean">>, "f64">>, <<<<"skew", "M2">>, "f64">>,
              <<<<"skew", "M3">>, "f64">>, <<<<"skew", "M4">>, "f64">>,
              <<<<"bias">>, "bool">> >>
      [] kind = "RsRollingQuantile" ->
           << <<<<"stat", "sorted_window", "unsorted_window">>, "vec">>,
              <<<<"stat", "sorted_window", "sorted_window">>, "vec">>,
              <<<<"stat", "sorted_window", "window_size">>, "usize">>,
              <<<<"stat", "q">>, "f64">>,
              <<<<"q">>, "f64">>, <<<<"window_size">>, "usize">> >>
      [] kind = "RsRollingIQR" ->
           << <<<<"stat", "sorted_window", "unsorted_window">>, "vec">>,
              <<<<"stat", "sorted_window", "sorted_window">>, "vec">>,
              <<<<"stat", "sorted_window", "window_size">>, "usize">>,
              <<<<"stat", "q_inf">>, "f64">>, <<<<"stat", "q_sup">>, "f64">>,
              <<<<"q_inf">>, "f64">>, <<<<"q_sup">>, "f64">>,
              <<<<"window_size">>, "usize">> >>

RECURSIVE GetPath(_, _)
\* The field of e that path names.
GetPath(e, path) == IF path = <<>> THEN e ELSE GetPath(e[Head(path)], Tail(path))

\* The class named kind with its fields set to v, in Layout's order.
Build(kind, v) ==
    CASE kind = "RsQuantile" ->
           [kind |-> kind, quantile |-> [q |-> v[1], heights |-> v[2]]]
      [] kind = "RsEWMean" ->
           [kind |-> kind, ewmean |-> [mean |-> v[1], seen |-> v[2], alpha |-> v[3]],
            alpha |-> v[4]]
      [] kind = "RsEWVar" ->
           [kind |-> kind, ewvar |-> [mean |-> v[1], variance |-> v[2], alpha |-> v[3]],
            alpha |-> v[4]]
      [] kind = "RsIQR" ->
           [kind |-> kind,
            iqr |-> [q_inf |-> [q |-> v[1], heights |-> v[2]],
                     q_sup |-> [q |-> v[3], heights |-> v[4]]],
            q_inf |-> v[5], q_sup |-> v[6]]
      [] kind = "RsKurtosis" ->
           [kind |-> kind,
            kurtosis |-> [bias |-> v[1], n |-> v[2], mean |-> v[3],
                          M2 |-> v[4], M3 |-> v[5], M4 |-> v[6]],
            bias |-> v[7]]
      [] kind = "RsPeakToPeak" ->
           [kind |-> kind, ptp |-> [min |-> v[1], max |-> v[2], seen |-> v[3]]]
      [] kind = "RsSkew" ->
           [kind |-> kind,
            skew |-> [bias |-> v[1], n |-> v[2], mean |-> v[3],
                      M2 |-> v[4], M3 |-> v[5], M4 |-> v[6]],
            bias |-> v[7]]
      [] kind = "RsRollingQuantile" ->
           [kind |-> kind,
            stat |-> [sorted_window |-> [unsorted_window |-> v[1], sorted_window |-> v[2],
                                         window_size |-> v[3]],
                      q |-> v[4]],
            q |-> v[5], window_size |-> v[6]]
      [] kind = "RsRollingIQR" ->
           [kind |-> kind,
            stat |-> [sorted_window |-> [unsorted_window |-> v[1], sorted_window |-> v[2],
                                         window_size |-> v[3]],
                      q_inf |-> v[4], q_sup |-> v[5]],
            q_inf |-> v[6], q_sup |-> v[7], window_size |-> v[8]]

\* Encode that writes an f64 without its fractional part.
Encode_truncating(type, v) ==
    CASE type = "f64" -> <<(v \div One) * One>>
      [] type = "bool" -> <<IF v THEN 1 ELSE 0>>
      [] type = "usize" -> <<v>>
      [] type = "vec" -> <<Len(v)>> \o v

\* The cells of one value: a scalar is one cell, a vector its length and its elements.
Encode(type, v) ==
    CASE type = "f64" -> <<v>>
      [] type = "bool" -> <<IF v THEN 1 ELSE 0>>
      [] type = "usize" -> <<v>>
      [] type = "vec" -> <<Len(v)>> \o v

\* One value read off the front of bytes: Err when the bytes run out or a
\* bool cell is neither 0 nor 1.  Any cell reads as an f64; read as a usize,
\* a cell with the sign bit set is a huge number.
Decode(type, bytes) ==
    IF bytes = <<>> THEN [ok |-> FALSE]
    ELSE CASE type = "f64" -> [ok |-> TRUE, val |-> bytes[1], rest |-> Tail(bytes)]
           [] type = "bool" ->
                IF bytes[1] \in {0, 1}
                THEN [ok |-> TRUE, val |-> (bytes[1] = 1), rest |-> Tail(bytes)]
                ELSE [ok |-> FALSE]
           [] type = "usize" ->
                [ok |-> TRUE,
                 val |-> IF bytes[1] >= 0 THEN bytes[1] ELSE bytes[1] + 2000000,
                 rest |-> Tail(bytes)]
           [] type = "vec" ->
                IF 0 <= bytes[1] /\ bytes[1] <= Len(bytes) - 1
                THEN [ok |-> TRUE, val |-> SubSeq(bytes, 2, bytes[1] + 1),
                      rest |-> SubSeq(bytes, bytes[1] + 2, Len(bytes))]
                ELSE [ok |-> FALSE]

RECURSIVE EncodeFields(_, _)
EncodeFields(e, layout) ==
    IF layout = <<>> THEN <<>>
    ELSE Encode(Head(layout)[2], GetPath(e, Head(layout)[1])) \o EncodeFields(e, Tail(layout))

RECURSIVE DecodeFields(_, _)
\* The values of a layout read in order; bytes left over at the end are ignored.
DecodeFields(layout, bytes) ==
    IF layout = <<>> THEN [ok |-> TRUE, vals |-> <<>>]
    ELSE LET one == Decode(Head(layout)[2], bytes)
         IN  IF ~one.ok THEN [ok |-> FALSE]
             ELSE LET more == DecodeFields(Tail(layout), one.rest)
                  IN  IF ~more.ok THEN [ok |-> FALSE]
                      ELSE [ok |-> TRUE, vals |-> <<one.val>> \o more.vals]

\* bincode::serialize(&self): every field of the struct.
Serialize(e) == EncodeFields(e, Layout(e.kind))

\* bincode::deserialize::<Self>(bytes).
Deserialize(kind, bytes) ==
    LET r == DecodeFields(Layout(kind), bytes)
    IN  IF r.ok THEN [ok |-> TRUE, val |-> Build(kind, r.vals)] ELSE [ok |-> FALSE]

\* __getstate__(&self): the serialized struct.
RsGetState(e) == Serialize(e)

\* __setstate__ that restores the wrapped estimator and keeps the decay factor
\* the target was constructed with.
RsSetState_keeping_params(self, state) ==
    LET r == Unwrap(Deserialize(self.kind, state))
    IN  IF ~r.ok THEN [ok |-> FALSE, self |-> self]
        ELSE IF self.kind \in {"RsEWMean", "RsEWVar"}
        THEN [ok |-> TRUE, self |-> [r.val EXCEPT !.alpha = self.alpha]]
        ELSE [ok |-> TRUE, self |-> r.val]

\* __setstate__(&mut self, state): *self = deserialize(state).unwrap().  The
\* panic of unwrap comes before the assignment.
RsSetState(self, state) ==
    LET r == Unwrap(Deserialize(self.kind, state))
    IN  IF r.ok THEN [ok |-> TRUE, self |-> r.val] ELSE [ok |-> FALSE, self |-> self]

(* ------------------ lib.rs: the batch distance routine ---------------- *)

RECURSIVE SumSquares(_, _, _, _)
\* The loop of get_distance from index i on, sum being the value accumulated so far.
SumSquares(sample, sample2, i, sum) ==
    IF i > Len(sample) THEN sum
    ELSE LET diff == sample[i] - sample2[i]
         IN  SumSquares(sample, sample2, i + 1, sum + diff * diff)

\* get_distance that returns the Euclidean distance, the root of the sum.
get_distance_rooted(sample, sample2) == ISqrt(SumSquares(sample, sample2, 1, 0))

get_distance(sample, sample2) == SumSquares(sample, sample2, 1, 0)

\* get_1_to_n_distances: samples.len() / sample.len() rows (an integer division,
\* which panics on a zero divisor), one distance per row.
get_1_to_n_distances(sample, samples) ==
    IF Len(sample) = 0 THEN Panicked
    ELSE LET n == Len(samples) \div Len(sample)
         IN  Returned([i \in 1..n |->
                 get_distance(sample, SubSeq(samples, (i - 1) * Len(sample) + 1, i * Len(sample)))])

(* --------------------------- the state -------------------------------- *)

VARIABLES
    est,      \* the estimator that is fed the stream, NoEst before construction
    ctor,     \* the class and arguments est was constructed from
    twin,     \* the instance a snapshot is restored into, NoEst before construction
    tctor,    \* the class and arguments twin was constructed from
    snap,     \* the snapshot bytes in flight between __getstate__ and __setstate__
    snapSrc,  \* est as it was when the snapshot was taken
    paired,   \* twin holds a restored, unaltered snapshot of est and is fed with it
    phase,    \* where the caller is in the life cycle
    op,       \* the last call made
    outcome,  \* how the last call ended: "Ok" or "Panic"
    ret,      \* what the last call returned, as a sequence (<<>> for nothing)
    arg,      \* the arguments of the last call, as a sequence
    nupd,     \* the number of updates fed to est, as far as it is counted
    query,    \* the query vector of the distance routine
    refs      \* the flattened reference array of the distance routine

vars == <<est, ctor, twin, tctor, snap, snapSrc, paired, phase, op, arg, outcome, ret,
          nupd, query, refs>>

estVars == <<est, ctor, nupd>>

pickleVars == <<twin, tctor, snap, snapSrc, paired>>

distVars == <<query, refs>>

(* ---------------------------- the inputs ------------------------------ *)

\* Quantile levels and decay factors offered to the constructors: below, at
\* and above the ends of [0, 1], and the middle.
Levels == {0 - Half, 0, Half, One, One + Half}

\* (q_inf, q_sup) pairs: in order, equal, out of order, out of range.
LevelPairs == {<<0, One>>, <<Half, Half>>, <<One, Half>>, <<0, One + Half>>}

\* The argument tuples offered to the constructor of a class, windows up to maxw.
ArgsOf(kind, maxw) ==
    CASE kind = "RsQuantile" -> {<<>>} \cup {<<q>> : q \in Levels}
      [] kind \in {"RsEWMean", "RsEWVar"} -> {<<a>> : a \in Levels}
      [] kind = "RsIQR" -> LevelPairs
      [] kind \in {"RsKurtosis", "RsSkew"} -> {<<b>> : b \in BOOLEAN}
      [] kind = "RsPeakToPeak" -> {<<>>}
      [] kind = "RsRollingQuantile" -> {<<q, w>> : q \in Levels, w \in 0..maxw}
      [] kind = "RsRollingIQR" -> {<<p[1], p[2], w>> : p \in LevelPairs, w \in 0..maxw}

\* The argument tuples offered to the constructor of the receiving side.
TwinArgsOf(kind) ==
    CASE kind = "RsQuantile" -> {<<>>, <<One>>, <<One + Half>>}
      [] kind \in {"RsEWMean", "RsEWVar"} -> {<<Half>>, <<One>>}
      [] kind = "RsIQR" -> {<<0, One>>}
      [] kind \in {"RsKurtosis", "RsSkew"} -> {<<b>> : b \in BOOLEAN}
      [] kind = "RsPeakToPeak" -> {<<>>}
      [] kind = "RsRollingQuantile" -> {<<q, w>> : q \in {Half, One}, w \in {1, MaxWin}}
      [] kind = "RsRollingIQR" -> {<<0, One, w>> : w \in {1, MaxWin}}

\* The argument tuples of the streaming life cycle: windows up to MaxWindow,
\* and the window of five of the design document's median example.
StreamArgsOf(kind) ==
    ArgsOf(kind, MaxWindow) \cup (IF kind = "RsRollingQuantile" THEN {<<Half, 5>>} ELSE {})

\* Observations of the pickle life cycle and of the streaming life cycle.
Obs == {One, 2 * One, 3 * One}

StreamObs == {k * One : k \in 1..6}

\* Components of the vectors given to the distance routine.
QueryVals == {0, 1}

RefVals == {0, 1, 3, 4}

SeqsUpTo(S, n) == UNION {[1..k -> S] : k \in 0..n}

(* ------------------------------ Init ---------------------------------- *)

InitCommon ==
    /\ est = NoEst /\ ctor = <<>>
    /\ twin = NoEst /\ tctor = <<>>
    /\ snap = <<>> /\ snapSrc = NoEst /\ paired = FALSE
    /\ phase = "init" /\ op = "none" /\ arg = <<>> /\ outcome = "Ok" /\ ret = <<>>
    /\ nupd = 0

Init == InitCommon /\ query = <<>> /\ refs = <<>>

\* The distance routine is a pure function: its inputs are drawn at the start.
InitDist ==
    /\ InitCommon
    /\ query \in SeqsUpTo(QueryVals, MaxQueryLen)
    /\ refs \in SeqsUpTo(RefVals, MaxRefLen)

(* ----------------------------- actions -------------------------------- *)

\* The caller constructs the estimator.
New(kind, args) ==
    /\ phase = "init"
    /\ LET r == RsNew(kind, args)
       IN  /\ est' = IF r.ok THEN r.val ELSE NoEst
           /\ outcome' = IF r.ok THEN "Ok" ELSE "Panic"
           /\ phase' = IF r.ok THEN "stream" ELSE "failed"
    /\ ctor' = <<kind, args>>
    /\ op' = "new" /\ arg' = args /\ ret' = <<>>
    /\ UNCHANGED nupd
    /\ UNCHANGED pickleVars /\ UNCHANGED distVars

\* est can take one more counted update.
CanUpdate ==
    /\ nupd < MaxUpdates
    /\ est.kind \in MarkerKinds => nupd < Markers

\* update(x) on est, and on the restored twin that is fed the same stream.
Update(x) ==
    /\ phase = "stream" \/ (phase = "restored" /\ paired)
    /\ CanUpdate
    /\ est' = RsUpdate(est, x)
    /\ twin' = IF paired THEN RsUpdate(twin, x) ELSE twin
    /\ nupd' = nupd + 1
    /\ op' = "update" /\ arg' = <<x>> /\ outcome' = "Ok" /\ ret' = <<>>
    /\ UNCHANGED <<ctor, tctor, snap, snapSrc, paired, phase>>
    /\ UNCHANGED distVars

\* update(x) on a rolling estimator, whose window bounds its state: nupd
\* counts these updates up to one past the window size and then stays.
Stream(x) ==
    /\ phase = "stream"
    /\ est.kind \in RollingKinds
    /\ est' = RsUpdate(est, x)
    /\ nupd' = IF nupd <= est.window_size THEN nupd + 1 ELSE nupd
    /\ op' = "update" /\ arg' = <<x>> /\ outcome' = "Ok" /\ ret' = <<>>
    /\ UNCHANGED <<ctor, phase>>
    /\ UNCHANGED pickleVars /\ UNCHANGED distVars

\* get() on est.
Get ==
    /\ phase = "stream" \/ (phase = "restored" /\ paired)
    /\ LET r == RsGet(est)
       IN  est' = r.self /\ ret' = <<r.ret>>
    /\ op' = "get" /\ arg' = <<>> /\ outcome' = "Ok"
    /\ UNCHANGED <<ctor, nupd, phase>>
    /\ UNCHANGED pickleVars /\ UNCHANGED distVars

\* __getstate__() on est: the snapshot leaves the process.
GetState ==
    /\ phase = "stream"
    /\ snap' = RsGetState(est)
    /\ snapSrc' = est
    /\ phase' = "snapshotted"
    /\ op' = "getstate" /\ arg' = <<>> /\ outcome' = "Ok" /\ ret' = <<>>
    /\ UNCHANGED estVars /\ UNCHANGED <<twin, tctor, paired>> /\ UNCHANGED distVars

\* The snapshot is cut short on its way: its last cell is lost.
Truncate ==
    /\ phase = "snapshotted"
    /\ snap = RsGetState(snapSrc)
    /\ snap' = SubSeq(snap, 1, Len(snap) - 1)
    /\ op' = "truncate" /\ arg' = <<>> /\ outcome' = "Ok" /\ ret' = <<>>
    /\ UNCHANGED estVars /\ UNCHANGED <<twin, tctor, snapSrc, paired, phase>>
    /\ UNCHANGED distVars

\* The receiving side constructs the instance the snapshot is restored into.
NewTwin(kind, args) ==
    /\ phase = "snapshotted"
    /\ LET r == RsNew(kind, args)
       IN  /\ twin' = IF r.ok THEN r.val ELSE NoEst
           /\ outcome' = IF r.ok THEN "Ok" ELSE "Panic"
           /\ phase' = IF r.ok THEN "twinned" ELSE "failed"
    /\ tctor' = <<kind, args>>
    /\ op' = "newtwin" /\ arg' = args /\ ret' = <<>>
    /\ UNCHANGED estVars /\ UNCHANGED <<snap, snapSrc, paired>> /\ UNCHANGED distVars

\* __setstate__(snap) on twin.
SetState ==
    /\ phase = "twinned"
    /\ LET r == RsSetState(twin, snap)
       IN  /\ twin' = r.self
           /\ outcome' = IF r.ok THEN "Ok" ELSE "Panic"
           /\ paired' = (r.ok /\ twin.kind = snapSrc.kind /\ snap = RsGetState(snapSrc))
    /\ phase' = "restored"
    /\ op' = "setstate" /\ arg' = snap /\ ret' = <<>>
    /\ UNCHANGED estVars /\ UNCHANGED <<tctor, snap, snapSrc>> /\ UNCHANGED distVars

\* get_1_to_n_distances(query, refs).
Distances ==
    /\ op = "none"
    /\ LET r == get_1_to_n_distances(query, refs)
       IN  /\ outcome' = IF r.ok THEN "Ok" ELSE "Panic"
           /\ ret' = IF r.ok THEN r.val ELSE <<>>
    /\ op' = "distances" /\ arg' = <<query, refs>>
    /\ UNCHANGED estVars /\ UNCHANGED pickleVars /\ UNCHANGED <<phase>> /\ UNCHANGED distVars

(* -------------------------- specifications ---------------------------- *)

\* The pickle life cycle: construct, feed, snapshot, restore, feed both.
Next ==
    \/ \E kind \in Kinds : \E args \in ArgsOf(kind, MaxWin) : New(kind, args)
    \/ \E x \in Obs : Update(x)
    \/ Get
    \/ GetState
    \/ Truncate
    \/ \E kind \in Kinds : \E args \in TwinArgsOf(kind) : NewTwin(kind, args)
    \/ SetState

Spec == Init /\ [][Next]_vars

\* The streaming life cycle of the rolling estimators.
NextRolling ==
    \/ \E kind \in RollingKinds : \E args \in StreamArgsOf(kind) : New(kind, args)
    \/ \E x \in StreamObs : Stream(x)
    \/ Get

SpecRolling == Init /\ [][NextRolling]_vars

\* The distance routine applied to every input within the bounds.
NextDist == Distances

SpecDist == InitDist /\ [][NextDist]_vars

(* ------------------------------ claims -------------------------------- *)

\* The instance a constructor call returns.
Fresh(c) == RsNew(c[1], c[2]).val

\* The snapshot in flight is what __getstate__ produced, cell for cell.
Genuine == snap = RsGetState(snapSrc)

\* The classes that define __getnewargs__.
HasNewArgs(kind) == kind \notin {"RsQuantile", "RsPeakToPeak", "None"}

\* C1: a snapshot of est restored into a freshly constructed instance of the
\* same class (whatever arguments it was constructed with, est's own among
\* them) gives an instance that, fed the same further updates as est, returns
\* the same get() value as est after every step.
C1_RoundTrip == paired => RsGet(twin).ret = RsGet(est).ret

\* C1 witness: an estimator that was fed before the snapshot, restored into an
\* instance constructed from the same arguments, and fed again afterwards, the
\* last update having changed what get() returns.
C1_Witness ==
    /\ paired /\ tctor = ctor /\ op = "update"
    /\ snapSrc # Fresh(ctor)
    /\ RsGet(est).ret # RsGet(snapSrc).ret

\* The constructor arguments c are ones the design document allows (a decay
\* factor inside (0, 1); the other constructors validate theirs).
InRange(c) ==
    c[1] \in {"RsEWMean", "RsEWVar"} => (0 < c[2][1] /\ c[2][1] < One)

\* C2 (as claimed): __setstate__ given bytes that are cut short or come from
\* another class ends in a panic and leaves the target as it was constructed
\* (stated for estimators constructed with arguments in range).
C2_MalformedRejected ==
    (op = "setstate" /\ InRange(ctor) /\ InRange(tctor)
                     /\ (~Genuine \/ tctor[1] # snapSrc.kind))
        => (outcome = "Panic" /\ twin = Fresh(tctor))

RECURSIVE SquaredDistance(_, _)
\* The sum over the first k components of the squared differences between the
\* query and row i of the references.
SquaredDistance(i, k) ==
    IF k = 0 THEN 0
    ELSE LET d == query[k] - refs[(i - 1) * Len(query) + k]
         IN  SquaredDistance(i, k - 1) + d * d

\* C3: for a non-empty query of length F and N*F references, the routine
\* returns N entries, entry i being the sum over k of
\* (query[k] - references[i*F+k])^2, no square root taken.
C3_Distances ==
    (op = "distances" /\ Len(query) > 0 /\ Len(refs) % Len(query) = 0)
        => /\ outcome = "Ok"
           /\ Len(ret) = Len(refs) \div Len(query)
           /\ \A i \in 1..Len(ret) : ret[i] = SquaredDistance(i, Len(query))

\* C3 witness: distances([0,0], [0,0, 3,4, 1,1]) = [0, 25, 2].
C3_Witness ==
    /\ op = "distances" /\ outcome = "Ok"
    /\ query = <<0, 0>> /\ refs = <<0, 0, 3, 4, 1, 1>>
    /\ ret = <<0, 25, 2>>

\* C4 (as claimed): with an empty query, or references whose length is not a
\* multiple of the query's, the routine ends in an error and returns no vector.
C4_RaggedRejected ==
    (op = "distances" /\ (Len(query) = 0 \/ Len(refs) % Len(query) # 0))
        => outcome = "Panic"

\* The constructor calls C5 is about: a Quantile level outside [0, 1], a
\* RollingQuantile window of 0.
C5_BadArgs(c) ==
    \/ c[1] = "RsQuantile" /\ c[2] # <<>> /\ (c[2][1] < 0 \/ c[2][1] > One)
    \/ c[1] = "RsRollingQuantile" /\ c[2][2] = 0

\* C5: such a constructor call ends in a panic, no instance comes into
\* existence, and no update is ever accepted.
C5_BadQuantileArgs ==
    (ctor # <<>> /\ C5_BadArgs(ctor))
        => (est = NoEst /\ phase = "failed" /\ nupd = 0 /\ op = "new" /\ outcome = "Panic")

\* C5 witness: Quantile(q = 1.5) was called and panicked.
C5_Witness ==
    /\ ctor = <<"RsQuantile", <<One + Half>>>>
    /\ op = "new" /\ outcome = "Panic" /\ est = NoEst

\* C6 (as claimed): constructing an EWMean or EWVariance with alpha outside the
\* open interval (0, 1) ends in an error and yields no instance.
C6_BadAlphaRejected ==
    (ctor # <<>> /\ ctor[1] \in {"RsEWMean", "RsEWVar"}
                 /\ ~(0 < ctor[2][1] /\ ctor[2][1] < One))
        => (est = NoEst /\ phase = "failed")

C8_GetIsPure == [][op' = "get" => (est' = est /\ twin' = twin /\ nupd' = nupd)]_vars

\* C8 witness: get() was called on an estimator that holds observations.
C8_Witness == op = "get" /\ nupd >= 2 /\ ret = <<RsGet(est).ret>>

\* The window of a rolling estimator: its buffer, its ordered index, its size.
Buffer(e) == e.stat.sorted_window.unsorted_window

Index(e) == e.stat.sorted_window.sorted_window

RECURSIVE IsSorted(_)
IsSorted(s) == Len(s) < 2 \/ (s[1] <= s[2] /\ IsSorted(Tail(s)))

\* The number of times v occurs in s.
Count(s, v) == Cardinality({i \in 1..Len(s) : s[i] = v})

SameMultiset(s, t) ==
    /\ Len(s) = Len(t)
    /\ \A i \in 1..Len(s) : Count(s, s[i]) = Count(t, s[i])

\* C9, in every state: the buffer holds min(n, W) observations, never more
\* than W, and the ordered index holds the same multiset in ascending order.
C9_WindowInv ==
    est.kind \in RollingKinds
        => /\ Len(Buffer(est)) <= est.window_size
           /\ Len(Buffer(est)) = Min2(nupd, est.window_size)
           /\ SameMultiset(Index(est), Buffer(est))
           /\ IsSorted(Index(est))

\* C9, at every update: the buffer becomes the last W of the old buffer
\* followed by the new observation, so on a full window the oldest goes; and
\* the index loses exactly that oldest observation and gains the new one.
C9_WindowStep ==
    (op' = "update" /\ est.kind \in RollingKinds)
        => /\ Buffer(est') = LastN(Append(Buffer(est), arg'[1]), est.window_size)
           /\ SameMultiset(Index(est'),
                  IF Len(Buffer(est)) = est.window_size
                  THEN Append(RemoveOne(Index(est), Head(Buffer(est))), arg'[1])
                  ELSE Append(Index(est), arg'[1]))

\* C9: a rolling window holds exactly the last min(n, W) observations in
\* arrival order, evicting the oldest from buffer and index on overflow, and
\* the index always holds the buffer's multiset.
C9_Window == [](C9_WindowInv) /\ [][C9_WindowStep]_vars

\* C9 witness: a window of 3 that was fed more than 3 observations.
C9_Witness ==
    /\ est.kind = "RsRollingIQR" /\ est.window_size = 3
    /\ nupd = 4 /\ Len(Buffer(est)) = 3
    /\ Buffer(est) # Index(est)

\* The rank nearest to q * (len - 1), the lower one of two equally near.
NearestRank(q, len) ==
    CHOOSE r \in 0..(len - 1) :
        \A t \in 0..(len - 1) :
            LET dr == IF r * One >= q * (len - 1) THEN r * One - q * (len - 1)
                      ELSE q * (len - 1) - r * One
                dt == IF t * One >= q * (len - 1) THEN t * One - q * (len - 1)
                      ELSE q * (len - 1) - t * One
            IN  dr < dt \/ (dr = dt /\ r <= t)

\* C10: RollingQuantile.get() on a non-empty window returns the element at
\* rank round(q * (len - 1)), ties toward the lower index, of the sorted
\* contents of the window.
C10_NearestRank ==
    (op = "get" /\ est.kind = "RsRollingQuantile" /\ Buffer(est) # <<>>)
        => ret[1] = SortAsc(Buffer(est))[NearestRank(est.q, Len(Buffer(est))) + 1]

\* C10 witness: RollingQuantile(q = 0.5, W = 5) fed 1..6 holds [2,3,4,5,6]
\* and get() returns 4.
C10_Witness ==
    /\ op = "get" /\ est.kind = "RsRollingQuantile"
    /\ est.q = Half /\ est.window_size = 5 /\ nupd = 6
    /\ Buffer(est) = <<2 * One, 3 * One, 4 * One, 5 * One, 6 * One>>
    /\ ret = <<4 * One>>

=============================================================================
